---------------------------- MODULE Spec2Model ----------------------------
(***************************************************************************)
(* State-machine model of the streaming subsystem of                       *)
(* hyperliquid-mcp-server: src/tools/websocket_tools.py (WebSocketManager, *)
(* WebSocketTools) and the three subscribe handlers of src/server.py.      *)
(*                                                                         *)
(* The program is asyncio code: one thread, cooperative tasks.  A task     *)
(* runs without interruption from one suspension point (an await on the    *)
(* transport, on asyncio.sleep, on asyncio.gather or on a coroutine        *)
(* callback) to the next.  Every action below is one such run: it resumes  *)
(* one task at the await it is parked on, with one outcome of that await,  *)
(* and executes the code up to the next await.                             *)
(***************************************************************************)
EXTENDS Integers, Sequences, FiniteSets, Bags, TLC

(***************************************************************************)
(* Bounds of the model.                                                    *)
(***************************************************************************)
\* Runs of the connection supervisor (SpecConn, SpecDepths).
MaxTransports == 2      \* transports websockets.connect opens
MaxCalls == 2           \* command-layer calls
MaxListen == 2          \* start() invocations, i.e. listen tasks
\* Runs of the facade operations (SpecFacade).
MaxFacadeTransports == 1
MaxFacadeCalls == 3
MaxFacadeStarts == 2
\* Runs of the router (SpecRouter).
MaxRouterCalls == 4
MaxInbound == 1         \* messages the venue delivers
\* Runs of the router under a supervisor started more than once (SpecOrder).
MaxOrderCalls == 3
MaxOrderInbound == 2
\* Runs of the supervisor stopped and started again (SpecStop).
MaxStopCalls == 3
\* Runs of the supervisor under fair scheduling (SpecLive).
MaxLiveCalls == 3
\* Runs of the account streams, with and without an account (SpecAccount).
MaxAccountCalls == 3
MaxAccountInbound == 1
\* Runs of the tool handlers of server.py (SpecServer).
MaxServerCalls == 2
\* Runs of one listen loop whose reconnections are observed (SpecBackoff).
MaxBackoffCalls == 3

(***************************************************************************)
(* Program constants.                                                      *)
(***************************************************************************)
max_reconnect_attempts == 5
base_reconnect_delay == 1

None == "None"
NoWs == 0

\* One command-layer caller: the calls of a run follow one another, each
\* begun when the one before has returned; the listen tasks run beside it.
Cmds == {<<"cmd", 1>>}
Listens == {<<"listen", i>> : i \in 1..MaxListen}
Tasks == Cmds \cup Listens

Coins == {"BTC", "ETH"}
Account == "0xabc"
valid_types == <<"l2Book", "trades", "candle">>

(***************************************************************************)
(* Strings.  str.lower() and str.split("@")[0] are modelled on the strings *)
(* that occur: a channel tag is the sequence of its "@"-separated parts.   *)
(***************************************************************************)
Lower(s) ==
    CASE s = "l2Book" -> "l2book"
      [] s = "L2BOOK" -> "l2book"
      [] s = "TRADES" -> "trades"
      [] s = "Trades" -> "trades"
      [] s = "orderUpdates" -> "orderupdates"
      [] s = "userFills" -> "userfills"
      [] s = "userEvents" -> "userevents"
      [] OTHER -> s

\* channel.split("@")[0]
SplitAt0(tag) == tag[1]

SeqRange(s) == {s[i] : i \in 1..Len(s)}

(***************************************************************************)
(* Parameter dictionaries are sequences of <<key, value>> pairs in         *)
(* insertion order.  json.dumps(params, sort_keys=True) orders the pairs   *)
(* by key; hash() of the dump is taken to be injective on the dumps that   *)
(* occur, so the dump itself stands for its hash.                          *)
(***************************************************************************)
KeyRank(k) ==
    CASE k = "coin" -> 1
      [] k = "interval" -> 2
      [] k = "user" -> 3
      [] OTHER -> 4

RECURSIVE InsertSorted(_, _)
InsertSorted(kv, s) ==
    IF s = << >> THEN <<kv>>
    ELSE IF KeyRank(kv[1]) <= KeyRank(Head(s)[1]) THEN <<kv>> \o s
    ELSE <<Head(s)>> \o InsertSorted(kv, Tail(s))

RECURSIVE DumpSorted(_)
DumpSorted(params) ==
    IF params = << >> THEN << >>
    ELSE InsertSorted(Head(params), DumpSorted(Tail(params)))

SubId(subscription_type, params) == <<subscription_type, DumpSorted(params)>>

WireMessage(method, subscription_type, params) ==
    [method |-> method, type |-> subscription_type, params |-> params]


(***************************************************************************)
(* State.                                                                  *)
(*   mgr           the WebSocketManager object                             *)
(*   tasks         every asyncio task: the command-layer callers (Cmds)    *)
(*                 and the listen tasks start() creates (Listens, the      *)
(*                 members of WebSocketTools.active_tasks), each parked at *)
(*                 an await                                                *)
(*   calling       the call each caller is in, and how far it is           *)
(*   result        how the last call of each caller ended                  *)
(*   account_address   WebSocketTools.account_address                      *)
(*   opened, live  the transports websockets.connect has returned          *)
(*                 (1..opened) and those of them that are still open       *)
(*   closed        the transports disconnect() has closed                  *)
(*   wire          bag of <<transport, message>>: every message ws.send    *)
(*                 has written                                             *)
(*   routed        the messages _handle_message is through with: the tag,  *)
(*                 the registry when it began and when it ended, the       *)
(*                 callbacks it invoked, and how it ended                  *)
(*   calls, starts, inbound   counters that bound a run                    *)
(*   limits        the budget of the run: transports, calls, start()s, and *)
(*                 whether it records the nesting depth of                 *)
(*                 reconnect() in the frames and the registry a call       *)
(*                 began with (fixed by Init)                              *)
(***************************************************************************)
VARIABLES mgr, tasks, calling, result, account_address, opened, live, closed,
          wire, routed, calls, starts, inbound, limits

vars == <<mgr, tasks, calling, result, account_address, opened, live, closed,
          wire, routed, calls, starts, inbound, limits>>

(***************************************************************************)
(* self.subscriptions: a Python dict, insertion ordered.  It is the        *)
(* sequence of its values; every value carries its key in the field id.    *)
(***************************************************************************)
Keys(d) == {d[i].id : i \in 1..Len(d)}

IndexOf(d, k) == CHOOSE i \in 1..Len(d) : d[i].id = k

DictGet(d, k) == d[IndexOf(d, k)]

DictSet(d, k, v) ==
    IF k \in Keys(d) THEN [d EXCEPT ![IndexOf(d, k)] = v] ELSE Append(d, v)

DictDel(d, k) ==
    LET j == IndexOf(d, k) IN SubSeq(d, 1, j - 1) \o SubSeq(d, j + 1, Len(d))

NewManager ==
    [ws |-> NoWs,
     connected |-> FALSE,
     subscriptions |-> << >>,
     message_handlers |-> << >>,
     reconnect_attempts |-> 0,
     message_queue |-> << >>,
     running |-> FALSE,
     messages_received |-> 0,
     messages_sent |-> 0,
     reconnections |-> 0]

\* A call of the command layer: what was asked (op, server: through the
\* handler of server.py, coin, types, cb, target) and where it stands (the
\* registrations to make, the one in hand, the ids made, the keys being
\* unsubscribed, the one in hand, the loop that unsubscribes).  In the runs
\* that observe the history of a call, had is the registry and the callback
\* table the call began with, and prev tells, when the call before it was a
\* subscribe_market_data that returned, the ids it returned and what it had
\* begun with.
NoSnapshot == [subscriptions |-> << >>, message_handlers |-> << >>]

NoPrev == [created |-> << >>, had |-> NoSnapshot]

Call(op, server, coin, types, cb, target) ==
    [op |-> op, server |-> server, coin |-> coin, types |-> types, cb |-> cb,
     target |-> target, todo |-> << >>, i |-> 1, created |-> << >>,
     keys |-> << >>, k |-> 1, phase |-> "-", had |-> NoSnapshot, prev |-> NoPrev]

NoCall == Call("-", FALSE, None, << >>, None, None)
\* How a call ended: returned ("ok") or the exception it raised, and the
\* value it returned, if the model keeps it.
NoRes == [status |-> "-", call |-> NoCall, ret |-> << >>]

\* What a parked task keeps: the await (pc), the transport it uses (w), the
\* callers up its stack (sendFrom, connFrom, recFrom), the dict iterator of
\* the loop it is in (pos entries passed, size expected), the message in
\* hand (msg, or tag and its number seq in the order of arrival), and in _handle_message the list of callbacks it walks:
\* the id it belongs to, the callbacks passed, whether the list is still the
\* one in message_handlers and its content if not; snap, got and inv are
\* what the task will report in routed: the registry and the callback table
\* it began with, the
\* callbacks registered then for the entries that match (due), the entries
\* it counted the message for, the callbacks it invoked, those of them that
\* raised.
ParkedFields ==
    {"pc", "w", "sendFrom", "connFrom", "recFrom", "pos", "size", "depth", "s0",
     "delay", "msg", "tag", "seq", "hid", "hpos", "hlive", "hlist", "snap", "hsnap",
     "due", "got", "inv", "exc"}

Frame(pc) ==
    [pc |-> pc, w |-> NoWs, sendFrom |-> "-", connFrom |-> "-", recFrom |-> "-",
     pos |-> 0, size |-> 0, depth |-> 0, s0 |-> 0, delay |-> 0, msg |-> None,
     tag |-> << >>, seq |-> 0, hid |-> << >>, hpos |-> 0, hlive |-> FALSE, hlist |-> << >>,
     snap |-> << >>, hsnap |-> << >>, due |-> {}, got |-> << >>, inv |-> << >>, exc |-> << >>,
     call |-> NoCall, res |-> NoRes]

\* What one run of a task leaves behind: the manager, the task's own frame,
\* the dict slot a del emptied (0: none), the id whose callback list was
\* deleted (<< >>: none), whether start() created a task, the message it is
\* through with, if any.
Cfg(m, t) ==
    [m |-> m, t |-> t, del |-> 0, hdel |-> << >>, spawn |-> FALSE, routed |-> << >>]

\* _send_message, up to its await: the connected/ws check.
SendAllowed(m) == m.connected /\ m.ws # NoWs

(***************************************************************************)
(* listen(), reconnect(), connect(), _resubscribe_all().                   *)
(***************************************************************************)
\* except Exception in listen (lines 306-309): sleep(1) when running, then
\* the loop head; the loop head with running false ends the task.
ListenCaught(m, t) ==
    IF m.running THEN Cfg(m, Frame("sleep1"))
    ELSE Cfg(m, Frame("done"))

\* reconnect() called at line 288 raises at once (the attempts are spent):
\* the exception is caught at line 306 like any other, and the loop sleeps
\* and goes on.  The frame records that the sleep follows a reconnect()
\* that gave up ("try"), or one that gave up after the loop had already
\* slept on such a failure with no start() called since ("again"), and the
\* number of start() calls issued so far.
GaveUp(m, t, env) ==
    IF m.running
    THEN Cfg(m, [Frame("sleep1") EXCEPT
                    !.recFrom = IF t.recFrom \in {"try", "again"} /\ t.s0 = env.starts
                                THEN "again" ELSE "try",
                    !.s0 = env.starts])
    ELSE Cfg(m, Frame("done"))

\* wait_for(self.ws.recv()): no ws is an AttributeError, a second recv on a
\* transport another task is reading is refused by the library; both are
\* caught at line 306.  Otherwise the task parks on recv.
RecvBegin(m, t, env) ==
    IF m.ws = NoWs \/ m.ws \in env.busy THEN ListenCaught(m, t)
    ELSE Cfg(m, [Frame("recv") EXCEPT !.w = m.ws])

\* reconnect() up to its sleep of delay seconds.  from is the place in listen
\* that called it:
\* "try" (line 288, inside the try) or "handler" (lines 300 and 305, inside
\* an except clause, where a raise leaves listen).  depth counts the nested
\* invocations of reconnect(), one per connect() attempt of the sequence
\* (0: listen is calling); s0 is the number of start() calls issued when
\* the sequence began; they and the delay are kept only in the runs that
\* observe the call stack (depths), to keep the others small.
ReconnectBegin(m, t, from, env) ==
    IF m.reconnect_attempts >= max_reconnect_attempts
    THEN IF from = "try" THEN GaveUp(m, t, env) ELSE Cfg(m, Frame("dead"))
    ELSE Cfg([m EXCEPT !.reconnect_attempts = @ + 1],
             [Frame("backoff") EXCEPT
                 !.recFrom = from,
                 !.delay = IF env.depths
                           THEN base_reconnect_delay * 2 ^ ((m.reconnect_attempts + 1) - 1)
                           ELSE 0,
                 !.depth = IF env.depths THEN t.depth + 1 ELSE 0,
                 !.s0 = IF ~env.depths THEN 0
                        ELSE IF t.depth = 0 THEN env.starts ELSE t.s0])

\* The head of the while loop of listen, up to the next await.
ListenTop(m, t, env) ==
    IF ~m.running THEN Cfg(m, Frame("done"))
    ELSE IF ~m.connected
    THEN ReconnectBegin(m, [Frame("recv") EXCEPT !.recFrom = t.recFrom, !.s0 = t.s0],
                        "try", env)
    ELSE RecvBegin(m, t, env)

\* reconnect() has returned to listen.
ReconnectReturned(m, t, env) ==
    IF t.recFrom = "try" THEN RecvBegin(m, t, env) ELSE ListenTop(m, t, env)

\* The for loop of _resubscribe_all from dict slot pos on; size is the
\* length the dict iterator expects.  out tells how connect() ends, if this
\* run ends it: "ok", "raise", or "-" when the task parks on a send.
RECURSIVE ResubNext(_, _, _, _)
ResubNext(m, t, pos, size) ==
    IF Len(m.subscriptions) # size
    THEN [m |-> [m EXCEPT !.connected = FALSE], t |-> t, out |-> "raise"]
    ELSE IF pos >= Len(m.subscriptions)
    THEN [m |-> m, t |-> t, out |-> "ok"]
    ELSE IF ~SendAllowed(m)
    THEN ResubNext(m, t, pos + 1, size)
    ELSE [m |-> m,
          t |-> [t EXCEPT !.pc = "send", !.sendFrom = "resub", !.w = m.ws,
                          !.msg = m.subscriptions[pos + 1].message,
                          !.pos = pos + 1, !.size = size],
          out |-> "-"]

\* A connect() that does not replay the registry.
ConnectOpened_NoResubscribe(m, t, w) ==
    [m |-> [m EXCEPT !.ws = w, !.connected = TRUE, !.reconnect_attempts = 0],
     t |-> t, out |-> "ok"]

\* connect() after websockets.connect returned transport w.
ConnectOpened(m, t, w) ==
    LET m1 == [m EXCEPT !.ws = w, !.connected = TRUE, !.reconnect_attempts = 0]
    IN  IF m1.subscriptions = << >>
        THEN [m |-> m1, t |-> t, out |-> "ok"]
        ELSE ResubNext(m1, t, 0, Len(m1.subscriptions))

\* A connect() whose except clause raises and leaves the connected flag as
\* it is.
ConnectRefused_KeepFlag(m, t) == [m |-> m, t |-> t, out |-> "raise"]

\* connect() after websockets.connect raised.
ConnectRefused(m, t) ==
    [m |-> [m EXCEPT !.connected = FALSE], t |-> t, out |-> "raise"]

(***************************************************************************)
(* _handle_message: the router.                                            *)
(***************************************************************************)
\* A callback is known by its name; the name tells whether it is a
\* coroutine function (asyncio.iscoroutinefunction).
IsCoroutine(handler) == handler \in {"coro", "coro2"}

\* A plain-function callback that raises when it is called.
Raises(handler) == handler = "bad"

\* A match that takes every entry.
_message_matches_subscription_Any(tag, sub_data) == TRUE

_message_matches_subscription(tag, sub_data) ==
    Lower(SplitAt0(tag)) = Lower(sub_data.type)

\* _handle_message returns to listen: after the for loop, with the message
\* put on the queue ("queued"), or from its except clause, the loop left by
\* the RuntimeError of the dict iterator ("aborted").  listen goes on with
\* its while loop.
HandleEnd(m, t, outcome, env) ==
    LET m1 == IF outcome = "queued"
              THEN [m EXCEPT !.message_queue = Append(@, t.tag)] ELSE m
    IN  [ListenTop(m1, Frame("recv"), env) EXCEPT
            !.routed = <<[tag |-> t.tag, seq |-> t.seq, before |-> t.snap,
                          after |-> m1.subscriptions,
                          handlers |-> t.hsnap,
                          due |-> t.due,
                          delivered |-> t.got, invoked |-> t.inv,
                          raised |-> t.exc,
                          outcome |-> outcome]>>]

\* The two nested for loops of _handle_message, each from where it stands,
\* up to the await of a coroutine callback or to the end.  A callback that
\* is a plain function has returned, or raised into the except clause of
\* line 254, when the inner loop goes on.
RECURSIVE HandlersNext(_, _, _)
RECURSIVE EntriesNext(_, _, _)
RECURSIVE AfterHandler(_, _, _, _)
EntriesNext(m, t, env) ==
    IF Len(m.subscriptions) # t.size THEN HandleEnd(m, t, "aborted", env)
    ELSE IF t.pos >= Len(m.subscriptions) THEN HandleEnd(m, t, "queued", env)
    ELSE
      LET i == t.pos + 1
          sub_data == m.subscriptions[i]
      IN  IF ~_message_matches_subscription(t.tag, sub_data)
          THEN EntriesNext(m, [t EXCEPT !.pos = i], env)
          ELSE
            LET m1 == [m EXCEPT !.subscriptions[i].messages_received = @ + 1]
                t1 == [t EXCEPT !.pos = i, !.got = Append(@, sub_data.id)]
            IN  IF sub_data.id \in DOMAIN m1.message_handlers
                THEN HandlersNext(m1, [t1 EXCEPT !.hid = sub_data.id, !.hpos = 0,
                                                 !.hlive = TRUE, !.hlist = << >>],
                                  env)
                ELSE EntriesNext(m1, t1, env)

HandlersNext(m, t, env) ==
    LET handlers == IF t.hlive THEN m.message_handlers[t.hid] ELSE t.hlist IN
    IF t.hpos >= Len(handlers)
    THEN EntriesNext(m, [t EXCEPT !.hid = << >>, !.hpos = 0, !.hlive = FALSE,
                                  !.hlist = << >>], env)
    ELSE
      LET handler == handlers[t.hpos + 1]
          t1 == [t EXCEPT !.hpos = @ + 1, !.inv = Append(@, <<t.hid, handler>>)]
      IN  IF IsCoroutine(handler)
          THEN Cfg(m, [t1 EXCEPT !.pc = "handler"])
          ELSE AfterHandler(m, t1, Raises(handler), env)

\* The callback called last has returned, or raised: the except clause of
\* lines 254-255 logs the exception and the inner loop goes on.
AfterHandler(m, t, raised, env) ==
    HandlersNext(m, IF raised THEN [t EXCEPT !.exc = Append(@, t.inv[Len(t.inv)])]
                    ELSE t, env)

\* The <<id, callback>> pairs registered in m for the entries that match tag.
Due(m, tag) ==
    UNION {{<<m.subscriptions[i].id, h>> :
               h \in SeqRange(m.message_handlers[m.subscriptions[i].id])} :
           i \in {j \in 1..Len(m.subscriptions) :
                     /\ _message_matches_subscription(tag, m.subscriptions[j])
                     /\ m.subscriptions[j].id \in DOMAIN m.message_handlers}}

\* _handle_message from its first line (the message is a JSON object with
\* the channel tag) to the first await.
HandleBegin(m, t, tag, env) ==
    EntriesNext([m EXCEPT !.messages_received = @ + 1],
                [Frame("handler") EXCEPT !.tag = tag, !.seq = env.seq, !.w = t.w,
                                         !.snap = m.subscriptions,
                                         !.hsnap = m.message_handlers,
                                         !.due = Due(m, tag),
                                         !.size = Len(m.subscriptions)],
                env)

(***************************************************************************)
(* WebSocketManager.subscribe / unsubscribe and the WebSocketTools calls.  *)
(***************************************************************************)
MarketParams(coin, data_type) ==
    IF data_type = "candle"
    THEN <<<<"coin", coin>>, <<"interval", "1m">>>>
    ELSE <<<<"coin", coin>>>>

UserParams(user) == <<<<"user", user>>>>

\* A validation that looks at the first element only.
ValidDataTypes_FirstOnly(data_types) ==
    Len(data_types) = 0 \/ data_types[1] \in SeqRange(valid_types)

\* The first loop of subscribe_market_data.
ValidDataTypes(data_types) ==
    \A i \in 1..Len(data_types) : data_types[i] \in SeqRange(valid_types)

\* A call of the command layer has returned or raised.
Finish(m, t, status) ==
    Cfg(m, [Frame("idle") EXCEPT !.res = [status |-> status, call |-> t.call,
                                          ret |-> << >>]])

\* A call of the command layer has returned ret.
Returned(m, t, ret) ==
    Cfg(m, [Frame("idle") EXCEPT !.res = [status |-> "ok", call |-> t.call,
                                          ret |-> ret]])

\* A listing that stops after the first entry.
get_active_subscriptions_FirstOnly(m) ==
    [i \in 1..(IF Len(m.subscriptions) > 0 THEN 1 ELSE 0) |->
        [subscription_id |-> m.subscriptions[i].id,
         subscription_type |-> m.subscriptions[i].type,
         params |-> m.subscriptions[i].params,
         connected |-> m.connected,
         messages_received |-> m.subscriptions[i].messages_received]]

\* get_active_subscriptions: one item per entry of the dict, in its order.
\* (subscribed_at is copied as it is stored; the model keeps no clock.)
get_active_subscriptions(m) ==
    [i \in 1..Len(m.subscriptions) |->
        [subscription_id |-> m.subscriptions[i].id,
         subscription_type |-> m.subscriptions[i].type,
         params |-> m.subscriptions[i].params,
         connected |-> m.connected,
         messages_received |-> m.subscriptions[i].messages_received]]

\* subscribe(), lines 167-195: the entry is stored under its id (an entry
\* already there is replaced) and the callback is appended to the id's list.
Stored(m, subscription_type, params, callback) ==
    LET sub_id == SubId(subscription_type, params)
        entry == [id |-> sub_id,
                  type |-> subscription_type,
                  params |-> params,
                  message |-> WireMessage("subscribe", subscription_type, params),
                  callback |-> callback,
                  messages_received |-> 0]
        h == m.message_handlers
    IN  [m EXCEPT
           !.subscriptions = DictSet(@, sub_id, entry),
           !.message_handlers =
               IF callback = None THEN h
               ELSE [k \in DOMAIN h \cup {sub_id} |->
                        IF k = sub_id
                        THEN (IF k \in DOMAIN h THEN h[k] ELSE << >>) \o <<callback>>
                        ELSE h[k]]]

\* unsubscribe() one key after another: the rollback loops of
\* subscribe_market_data and subscribe_order_updates (phase "rollback", the
\* keys are the ids the call created), unsubscribe_all (phase "all") and a
\* single unsubscribe (phase "single", where a failure is raised to the
\* caller).  The run ends at the await of _send_message or with the call.
RECURSIVE UnsubLoop(_, _)
\* An unsubscribe() that returns silently when the id is not registered.
UnsubLoop_IgnoreUnknown(m, t) ==
    LET c == t.call IN
    IF c.k > Len(c.keys)
    THEN Finish(m, t, IF c.phase = "rollback" THEN "Exception" ELSE "ok")
    ELSE
      LET sub_id == c.keys[c.k] IN
      IF sub_id \notin Keys(m.subscriptions)
      THEN IF c.phase = "single" THEN Finish(m, t, "ok")
           ELSE UnsubLoop(m, [t EXCEPT !.call.k = @ + 1])
      ELSE IF ~SendAllowed(m)
      THEN IF c.phase = "single" THEN Finish(m, t, "Exception")
           ELSE UnsubLoop(m, [t EXCEPT !.call.k = @ + 1])
      ELSE LET sub_data == DictGet(m.subscriptions, sub_id) IN
           Cfg(m, [Frame("send") EXCEPT !.sendFrom = "unsub", !.w = m.ws,
                                        !.call = c,
                                        !.msg = WireMessage("unsubscribe",
                                                            sub_data.type,
                                                            sub_data.params)])

UnsubLoop(m, t) ==
    LET c == t.call IN
    IF c.k > Len(c.keys)
    THEN Finish(m, t, IF c.phase = "rollback" THEN "Exception" ELSE "ok")
    ELSE
      LET sub_id == c.keys[c.k] IN
      IF sub_id \notin Keys(m.subscriptions)
      THEN IF c.phase = "single" THEN Finish(m, t, "ValueError")
           ELSE UnsubLoop(m, [t EXCEPT !.call.k = @ + 1])
      ELSE IF ~SendAllowed(m)
      THEN IF c.phase = "single" THEN Finish(m, t, "Exception")
           ELSE UnsubLoop(m, [t EXCEPT !.call.k = @ + 1])
      ELSE LET sub_data == DictGet(m.subscriptions, sub_id) IN
           Cfg(m, [Frame("send") EXCEPT !.sendFrom = "unsub", !.w = m.ws,
                                        !.call = c,
                                        !.msg = WireMessage("unsubscribe",
                                                            sub_data.type,
                                                            sub_data.params)])

\* An unsubscribe_all whose loop lets the failure of a send reach the caller.
UnsubSent_RaiseAll(m, t, sent) ==
    LET c == t.call
        sub_id == c.keys[c.k]
        present == sub_id \in Keys(m.subscriptions)
        h == m.message_handlers
        m1 == IF sent /\ present
              THEN [m EXCEPT !.subscriptions = DictDel(@, sub_id),
                             !.message_handlers =
                                 [k \in DOMAIN h \ {sub_id} |-> h[k]]]
              ELSE m
        r == IF sent /\ present
             THEN UnsubLoop(m1, [t EXCEPT !.call.k = @ + 1])
             ELSE IF c.phase \in {"single", "all"}
             THEN Finish(m1, t, IF sent THEN "KeyError" ELSE "Exception")
             ELSE UnsubLoop(m1, [t EXCEPT !.call.k = @ + 1])
    IN  [r EXCEPT !.del = IF sent /\ present
                          THEN IndexOf(m.subscriptions, sub_id) ELSE 0,
                  !.hdel = IF sent /\ present /\ sub_id \in DOMAIN h
                           THEN sub_id ELSE << >>]

\* unsubscribe() after its await: lines 223-225 when the send succeeded,
\* lines 227-229 when it raised.
UnsubSent(m, t, sent) ==
    LET c == t.call
        sub_id == c.keys[c.k]
        present == sub_id \in Keys(m.subscriptions)
        h == m.message_handlers
        m1 == IF sent /\ present
              THEN [m EXCEPT !.subscriptions = DictDel(@, sub_id),
                             !.message_handlers =
                                 [k \in DOMAIN h \ {sub_id} |-> h[k]]]
              ELSE m
        r == IF sent /\ present
             THEN UnsubLoop(m1, [t EXCEPT !.call.k = @ + 1])
             ELSE IF c.phase = "single"
             THEN Finish(m1, t, IF sent THEN "KeyError" ELSE "Exception")
             ELSE UnsubLoop(m1, [t EXCEPT !.call.k = @ + 1])
    IN  [r EXCEPT !.del = IF sent /\ present
                          THEN IndexOf(m.subscriptions, sub_id) ELSE 0,
                  !.hdel = IF sent /\ present /\ sub_id \in DOMAIN h
                           THEN sub_id ELSE << >>]

\* The except clause of a subscribing call: the ids created so far are
\* unsubscribed, then the error is raised.
Rollback(m, t) ==
    UnsubLoop(m, [t EXCEPT !.call.keys = t.call.created, !.call.k = 1,
                           !.call.phase = "rollback"])

\* The registering loop of a subscribing call from todo[i] on: subscribe()
\* up to the await of _send_message.  When _send_message refuses at once
\* (not connected), subscribe() deletes the entry and raises.
RegisterNext(m, t) ==
    LET c == t.call IN
    IF c.i > Len(c.todo) THEN Finish(m, t, "ok")
    ELSE
      LET subscription_type == c.todo[c.i][1]
          params == c.todo[c.i][2]
          sub_id == SubId(subscription_type, params)
          m1 == Stored(m, subscription_type, params, c.cb)
      IN  IF ~SendAllowed(m1)
          THEN [Rollback([m1 EXCEPT !.subscriptions = DictDel(@, sub_id)], t)
                  EXCEPT !.del = IF sub_id \in Keys(m.subscriptions)
                                 THEN IndexOf(m.subscriptions, sub_id) ELSE 0]
          ELSE Cfg(m1, [Frame("send") EXCEPT !.sendFrom = "sub", !.w = m1.ws,
                                             !.call = c,
                                             !.msg = WireMessage("subscribe",
                                                                 subscription_type,
                                                                 params)])

\* A subscribe() whose except clause keeps the entry.
SubscribeSent_KeepEntry(m, t, sent) ==
    IF sent
    THEN RegisterNext(m, [t EXCEPT !.call.created =
                                      Append(@, SubId(t.call.todo[t.call.i][1],
                                                      t.call.todo[t.call.i][2])),
                                   !.call.i = @ + 1])
    ELSE Rollback(m, t)

\* subscribe() after its await: lines 200-201 when the send succeeded, lines
\* 203-204 when it raised (the del raises KeyError when the entry is gone;
\* the caller sees an exception either way).
SubscribeSent(m, t, sent) ==
    LET c == t.call
        sub_id == SubId(c.todo[c.i][1], c.todo[c.i][2])
        present == sub_id \in Keys(m.subscriptions)
    IN  IF sent
        THEN RegisterNext(m, [t EXCEPT !.call.created = Append(@, sub_id),
                                       !.call.i = @ + 1])
        ELSE IF present
        THEN [Rollback([m EXCEPT !.subscriptions = DictDel(@, sub_id)], t)
                EXCEPT !.del = IndexOf(m.subscriptions, sub_id)]
        ELSE Rollback(m, t)

\* A WebSocketTools whose account streams do not look at account_address.
RunFacade_NoAccountCheck(m, t, env) ==
    LET c == t.call
        account == env.account
    IN
    CASE c.op = "start" -> Finish(m, t, "ok")
      [] c.op = "sub_user" ->
           RegisterNext(m, [t EXCEPT !.call.todo =
                              <<<<"userEvents", UserParams(account)>>>>])
      [] c.op = "sub_market" ->
           IF ~ValidDataTypes(c.types) THEN Finish(m, t, "ValueError")
           ELSE RegisterNext(m, [t EXCEPT !.call.todo =
                                   [i \in 1..Len(c.types) |->
                                      <<c.types[i], MarketParams(c.coin, c.types[i])>>]])
      [] c.op = "sub_orders" ->
           RegisterNext(m, [t EXCEPT !.call.todo =
                              <<<<"orderUpdates", UserParams(account)>>,
                                <<"userFills", UserParams(account)>>>>])
      [] c.op = "unsubscribe" ->
           UnsubLoop(m, [t EXCEPT !.call.keys = <<c.target>>,
                                  !.call.phase = "single"])
      [] c.op = "unsubscribe_all" ->
           UnsubLoop(m, [t EXCEPT !.call.keys =
                                     [i \in 1..Len(m.subscriptions) |->
                                        m.subscriptions[i].id],
                                  !.call.phase = "all"])
      [] c.op = "get_subs" -> Returned(m, t, get_active_subscriptions(m))
      [] OTHER -> Finish(m, t, "ok")

\* The body of a WebSocketTools call (after the handler of server.py has
\* made sure of start() when it is the caller).
RunFacade(m, t, env) ==
    LET c == t.call
        account == env.account
    IN
    CASE c.op = "start" -> Finish(m, t, "ok")
      [] c.op = "sub_user" ->
           IF account = None THEN Finish(m, t, "ValueError")
           ELSE RegisterNext(m, [t EXCEPT !.call.todo =
                                   <<<<"userEvents", UserParams(account)>>>>])
      [] c.op = "sub_market" ->
           IF ~ValidDataTypes(c.types) THEN Finish(m, t, "ValueError")
           ELSE RegisterNext(m, [t EXCEPT !.call.todo =
                                   [i \in 1..Len(c.types) |->
                                      <<c.types[i], MarketParams(c.coin, c.types[i])>>]])
      [] c.op = "sub_orders" ->
           IF account = None THEN Finish(m, t, "ValueError")
           ELSE RegisterNext(m, [t EXCEPT !.call.todo =
                                   <<<<"orderUpdates", UserParams(account)>>,
                                     <<"userFills", UserParams(account)>>>>])
      [] c.op = "unsubscribe" ->
           UnsubLoop(m, [t EXCEPT !.call.keys = <<c.target>>,
                                  !.call.phase = "single"])
      [] c.op = "unsubscribe_all" ->
           UnsubLoop(m, [t EXCEPT !.call.keys =
                                     [i \in 1..Len(m.subscriptions) |->
                                        m.subscriptions[i].id],
                                  !.call.phase = "all"])
      [] c.op = "get_subs" -> Returned(m, t, get_active_subscriptions(m))
      [] OTHER -> Finish(m, t, "ok")

\* A tool handler whose except clause takes ValueError only.
ServerResponse_ValueErrorOnly(res, account) ==
    IF res.call.op \in {"sub_user", "sub_orders"} /\ account = None
    THEN [raised |-> TRUE, success |-> FALSE, error |-> "TypeError", value |-> << >>]
    ELSE IF res.status = "ok"
    THEN [raised |-> FALSE, success |-> TRUE, error |-> None, value |-> res.ret]
    ELSE IF res.status = "ValueError"
    THEN [raised |-> FALSE, success |-> FALSE, error |-> res.status, value |-> << >>]
    ELSE [raised |-> TRUE, success |-> FALSE, error |-> res.status, value |-> << >>]

\* What a tool handler of server.py gives its caller when start() and the
\* WebSocketTools call it makes end as res.  The line before the try
\* slices account_address (in the two account handlers), which raises when
\* it is None; inside the try a normal return becomes success = True and
\* every Exception becomes success = False with its text.
ServerResponse(res, account) ==
    IF res.call.op \in {"sub_user", "sub_orders"} /\ account = None
    THEN [raised |-> TRUE, success |-> FALSE, error |-> "TypeError", value |-> << >>]
    ELSE IF res.status = "ok"
    THEN [raised |-> FALSE, success |-> TRUE, error |-> None, value |-> res.ret]
    ELSE [raised |-> FALSE, success |-> FALSE, error |-> res.status, value |-> << >>]

\* A connect() whose success is counted as a reconnection whoever called it.
ConnectEnded_CountEvery(r, env) ==
    IF r.out = "-" THEN Cfg(r.m, r.t)
    ELSE IF r.t.connFrom = "reconnect"
    THEN IF r.out = "ok"
         THEN ReconnectReturned([r.m EXCEPT !.reconnections = @ + 1], r.t, env)
         ELSE ReconnectBegin(r.m, r.t, r.t.recFrom, env)
    ELSE IF r.out = "ok"
         THEN [RunFacade([r.m EXCEPT !.reconnections = @ + 1], r.t, env)
                  EXCEPT !.spawn = TRUE]
         ELSE Finish(r.m, r.t, "Exception")

\* Where connect() ends when this run ends it (r.out), by its caller:
\* reconnect() counts the reconnection and returns to listen, or calls
\* itself again from its except clause; start() creates the listen task and
\* goes on with the call, or lets the exception reach the caller.
ConnectEnded(r, env) ==
    IF r.out = "-" THEN Cfg(r.m, r.t)
    ELSE IF r.t.connFrom = "reconnect"
    THEN IF r.out = "ok"
         THEN ReconnectReturned([r.m EXCEPT !.reconnections = @ + 1], r.t, env)
         ELSE ReconnectBegin(r.m, r.t, r.t.recFrom, env)
    ELSE IF r.out = "ok"
         THEN [RunFacade(r.m, r.t, env) EXCEPT !.spawn = TRUE]
         ELSE Finish(r.m, r.t, "Exception")

(***************************************************************************)
(* The actions: one run of one task, from the await it is parked on.       *)
(***************************************************************************)
Iterating(t) == (t.pc = "send" /\ t.sendFrom = "resub") \/ t.pc = "handler"

\* What the run of another task does to a parked one.  A del leaves a hole
\* in the dict's entry table: an iterator that has passed the hole has one
\* entry fewer behind it.  A del of a callback list leaves the list to the
\* loop that walks it.
Adjusted(t, cfg) ==
    LET t1 == IF cfg.del > 0 /\ Iterating(t) /\ cfg.del <= t.pos
              THEN [t EXCEPT !.pos = @ - 1] ELSE t
    IN  IF cfg.hdel # << >> /\ t.pc = "handler" /\ t.hlive /\ t.hid = cfg.hdel
        THEN [t1 EXCEPT !.hlive = FALSE, !.hlist = mgr.message_handlers[cfg.hdel]]
        ELSE t1

FreeListen ==
    CHOOSE l \in Listens :
        /\ tasks[l].pc = "none"
        /\ \A k \in Listens : tasks[k].pc = "none" => l[2] <= k[2]

\* The state of a task as the runs read and write it: where it is parked,
\* and for a caller its call.
Fr(u) ==
    [f \in ParkedFields \cup {"call", "res"} |->
        CASE f = "call" -> IF u \in Cmds THEN calling[u] ELSE NoCall
          [] f = "res" -> NoRes
          [] f \in DOMAIN tasks[u] -> tasks[u][f]
          [] OTHER -> Frame("-")[f]]

\* The locals that are alive across each await; the others are not kept.
FieldsAt(pc) ==
    {"pc"} \cup
    CASE pc \in {"recv", "close"} -> {"w"}
      [] pc = "backoff" -> {"recFrom", "depth", "s0", "delay"}
      [] pc = "sleep1" -> {"recFrom", "s0"}
      [] pc = "open" -> {"connFrom", "recFrom", "depth", "s0"}
      [] pc = "send" -> {"w", "sendFrom", "connFrom", "recFrom", "pos", "size",
                         "depth", "s0", "msg"}
      [] pc = "handler" -> {"w", "tag", "seq", "pos", "size", "hid", "hpos", "hlive",
                            "hlist", "snap", "hsnap", "due", "got", "inv", "exc"}
      [] OTHER -> {}

Parked(t) == [f \in FieldsAt(t.pc) |-> t[f]]

Apply(self, cfg) ==
    \E r \in {cfg} :
        /\ mgr' = r.m
        /\ tasks' = [u \in Tasks |->
                       IF u = self THEN Parked(r.t)
                       ELSE IF r.spawn /\ u = FreeListen THEN Parked(Frame("new"))
                       ELSE Adjusted(tasks[u], r)]
        /\ calling' = IF self \in Cmds THEN [calling EXCEPT ![self] = r.t.call]
                      ELSE calling
        /\ result' = IF self \in Cmds THEN [result EXCEPT ![self] = r.t.res]
                     ELSE result
        /\ routed' = routed \o r.routed

\* What a run reads besides the manager: the transports other tasks are
\* reading, WebSocketTools.account_address, the start() calls so far, the
\* number of the message recv returns.
Env(self) ==
    [busy |-> {tasks[u].w : u \in {x \in Tasks \ {self} : tasks[x].pc = "recv"}},
     account |-> account_address,
     starts |-> starts,
     seq |-> inbound + 1,
     depths |-> limits.depths]

\* A caller begins a call.  The subscribe handlers of server.py call start()
\* first when the manager is not connected (call.server); start() awaits
\* connect().
Begin(c, call0) ==
    LET last == result[c]
        call == IF ~limits.depths THEN call0
                ELSE [call0 EXCEPT
                        !.had = [subscriptions |-> mgr.subscriptions,
                                 message_handlers |-> mgr.message_handlers],
                        !.prev = IF last.status = "ok" /\ last.call.op = "sub_market"
                                 THEN [created |-> last.call.created,
                                       had |-> last.call.had]
                                 ELSE NoPrev]
        needsStart == \/ call.op = "start"
                      \/ call.server /\ call.op # "get_subs" /\ ~mgr.connected
    IN
    /\ tasks[c].pc = "idle"
    /\ calls < limits.calls
    /\ calls' = calls + 1
    /\ needsStart => starts < limits.starts
    /\ starts' = IF needsStart THEN starts + 1 ELSE starts
    /\ Apply(c, IF needsStart
                THEN Cfg(mgr, [Frame("open") EXCEPT !.connFrom = "start",
                                                    !.call = call])
                ELSE RunFacade(mgr, [Frame("idle") EXCEPT !.call = call], Env(c)))
    /\ UNCHANGED <<limits, closed, account_address, opened, live, wire, inbound>>

\* websockets.connect returns a new transport.
OpenOk(t) ==
    /\ tasks[t].pc = "open"
    /\ opened < limits.transports
    /\ opened' = opened + 1
    /\ live' = live \cup {opened + 1}
    /\ Apply(t, ConnectEnded(ConnectOpened(mgr, Fr(t), opened + 1),
                             Env(t)))
    /\ UNCHANGED <<limits, closed, account_address, wire, calls, starts, inbound>>

\* websockets.connect raises.
OpenFail(t) ==
    /\ tasks[t].pc = "open"
    /\ Apply(t, ConnectEnded(ConnectRefused(mgr, Fr(t)), Env(t)))
    /\ UNCHANGED <<limits, closed, account_address, opened, live, wire, calls, starts, inbound>>

\* A _send_message that counts the message whether ws.send returned or
\* raised.
SendDone_CountFailed(t) ==
    LET f == Fr(t)
        sent == f.w \in live
        m == [mgr EXCEPT !.messages_sent = @ + 1]
    IN  /\ f.pc = "send"
        /\ wire' = IF sent THEN wire (+) SetToBag({<<f.w, f.msg>>}) ELSE wire
        /\ Apply(t, CASE f.sendFrom = "resub" ->
                           ConnectEnded(ResubNext(m, f, f.pos, f.size),
                                        Env(t))
                      [] f.sendFrom = "sub" -> SubscribeSent(m, f, sent)
                      [] OTHER -> UnsubSent(m, f, sent))
        /\ UNCHANGED <<limits, closed, account_address, opened, live, calls, starts, inbound>>

\* ws.send returns (the transport is open: the message is written and
\* counted) or raises (the transport is closed).
SendDone(t) ==
    LET f == Fr(t)
        sent == f.w \in live
        m == IF sent THEN [mgr EXCEPT !.messages_sent = @ + 1] ELSE mgr
    IN  /\ f.pc = "send"
        /\ wire' = IF sent THEN wire (+) SetToBag({<<f.w, f.msg>>}) ELSE wire
        /\ Apply(t, CASE f.sendFrom = "resub" ->
                           ConnectEnded(ResubNext(m, f, f.pos, f.size),
                                        Env(t))
                      [] f.sendFrom = "sub" -> SubscribeSent(m, f, sent)
                      [] OTHER -> UnsubSent(m, f, sent))
        /\ UNCHANGED <<limits, closed, account_address, opened, live, calls, starts, inbound>>

\* The listen task start() created runs for the first time.
ListenStart(l) ==
    /\ tasks[l].pc = "new"
    /\ Apply(l, ListenTop([mgr EXCEPT !.running = TRUE], Fr(l), Env(l)))
    /\ UNCHANGED <<limits, closed, account_address, opened, live, wire, calls, starts, inbound>>

\* wait_for(recv) times out: continue.
RecvTimeout(l) ==
    /\ tasks[l].pc = "recv"
    /\ tasks[l].w \in live
    /\ Apply(l, ListenTop(mgr, Frame("recv"), Env(l)))
    /\ UNCHANGED <<limits, closed, account_address, opened, live, wire, calls, starts, inbound>>

\* A fault handler that calls reconnect() and leaves the connected flag as
\* it is.
RecvClosed_KeepConnected(l) ==
    /\ tasks[l].pc = "recv"
    /\ tasks[l].w \notin live
    /\ Apply(l, IF mgr.running
                THEN ReconnectBegin(mgr, Frame("recv"), "handler", Env(l))
                ELSE ListenTop(mgr, Frame("recv"), Env(l)))
    /\ UNCHANGED <<limits, closed, account_address, opened, live, wire, calls, starts, inbound>>

\* recv raises ConnectionClosed (or another WebSocketException).
RecvClosed(l) ==
    LET m == [mgr EXCEPT !.connected = FALSE] IN
    /\ tasks[l].pc = "recv"
    /\ tasks[l].w \notin live
    /\ Apply(l, IF m.running
                THEN ReconnectBegin(m, Frame("recv"), "handler", Env(l))
                ELSE ListenTop(m, Frame("recv"), Env(l)))
    /\ UNCHANGED <<limits, closed, account_address, opened, live, wire, calls, starts, inbound>>

\* The backoff sleep of reconnect() is over: connect().
BackoffDone(l) ==
    /\ tasks[l].pc = "backoff"
    /\ Apply(l, Cfg(mgr, [Fr(l) EXCEPT !.pc = "open", !.connFrom = "reconnect"]))
    /\ UNCHANGED <<limits, closed, account_address, opened, live, wire, calls, starts, inbound>>

\* The sleep(1) of line 309 is over: the loop head.
Sleep1Done(l) ==
    /\ tasks[l].pc = "sleep1"
    /\ Apply(l, ListenTop(mgr, Fr(l), Env(l)))
    /\ UNCHANGED <<limits, closed, account_address, opened, live, wire, calls, starts, inbound>>

\* recv returns a message of the venue: a JSON object whose channel is tag.
RecvMessage(l, tag) ==
    /\ tasks[l].pc = "recv"
    /\ tasks[l].w \in live
    /\ inbound < limits.inbound
    /\ inbound' = inbound + 1
    /\ Apply(l, HandleBegin(mgr, Fr(l), tag, Env(l)))
    /\ UNCHANGED <<limits, closed, account_address, opened, live, wire, calls, starts>>

\* The coroutine callback _handle_message awaits has returned or raised.
HandlerDone(l, raised) ==
    /\ tasks[l].pc = "handler"
    /\ Apply(l, AfterHandler(mgr, Fr(l), raised, Env(l)))
    /\ UNCHANGED <<limits, closed, account_address, opened, live, wire, calls, starts, inbound>>

\* A disconnect() that forgets the subscriptions.
Disconnect_ClearRegistry(m, t) ==
    LET m1 == [m EXCEPT !.running = FALSE, !.subscriptions = << >>,
                        !.message_handlers = << >>] IN
    IF m1.ws # NoWs
    THEN Cfg(m1, [Frame("close") EXCEPT !.w = m1.ws, !.call = t.call])
    ELSE Finish([m1 EXCEPT !.connected = FALSE, !.ws = NoWs], t, "ok")

\* disconnect() up to the await of ws.close().
Disconnect(m, t) ==
    LET m1 == [m EXCEPT !.running = FALSE] IN
    IF m1.ws # NoWs
    THEN Cfg(m1, [Frame("close") EXCEPT !.w = m1.ws, !.call = t.call])
    ELSE Finish([m1 EXCEPT !.connected = FALSE, !.ws = NoWs], t, "ok")

Ended == {"none", "done", "dead", "cancelled"}

\* A stop() that goes to disconnect() without cancelling the listen tasks.
StopBegin_NoCancel(c) ==
    LET call == Call("stop", FALSE, None, << >>, None, None) IN
    /\ tasks[c].pc = "idle"
    /\ calls < limits.calls
    /\ calls' = calls + 1
    /\ Apply(c, Disconnect(mgr, [Frame("gather") EXCEPT !.call = call]))
    /\ UNCHANGED <<limits, closed, account_address, opened, live, wire, starts, inbound>>

\* stop(): every task of active_tasks is cancelled (a task parked at an
\* await ends there with CancelledError, which no except clause of the
\* manager catches), then gather awaits them.  With no task to await,
\* gather is done at once and stop() goes on to disconnect().
StopBegin(c) ==
    LET call == Call("stop", FALSE, None, << >>, None, None)
        t == [Frame("gather") EXCEPT !.call = call]
        none == \A l \in Listens : tasks[l].pc = "none"
        cfg == IF none THEN Disconnect(mgr, t) ELSE Cfg(mgr, t)
    IN  /\ tasks[c].pc = "idle"
        /\ calls < limits.calls
        /\ calls' = calls + 1
        /\ mgr' = cfg.m
        /\ tasks' = [u \in Tasks |->
                       IF u = c THEN Parked(cfg.t)
                       ELSE IF u \in Listens /\ tasks[u].pc \notin Ended
                       THEN Parked(Frame("cancelled"))
                       ELSE tasks[u]]
        /\ calling' = [calling EXCEPT ![c] = cfg.t.call]
        /\ result' = [result EXCEPT ![c] = cfg.t.res]
        /\ routed' = routed
        /\ UNCHANGED <<limits, closed, account_address, opened, live, wire, starts, inbound>>

GatherDone(c) ==
    /\ tasks[c].pc = "gather"
    /\ Apply(c, Disconnect(mgr, Fr(c)))
    /\ UNCHANGED <<limits, closed, account_address, opened, live, wire, calls, starts, inbound>>

\* A finally clause of disconnect() that drops the handle and keeps the flag.
CloseDone_KeepConnected(c) ==
    /\ tasks[c].pc = "close"
    /\ live' = live \ {tasks[c].w}
    /\ closed' = closed \cup {tasks[c].w}
    /\ Apply(c, Finish([mgr EXCEPT !.ws = NoWs], Fr(c), "ok"))
    /\ UNCHANGED <<limits, account_address, opened, wire, calls, starts, inbound>>

\* ws.close() is over: the finally clause of disconnect().
CloseDone(c) ==
    /\ tasks[c].pc = "close"
    /\ live' = live \ {tasks[c].w}
    /\ closed' = closed \cup {tasks[c].w}
    /\ Apply(c, Finish([mgr EXCEPT !.connected = FALSE, !.ws = NoWs], Fr(c), "ok"))
    /\ UNCHANGED <<limits, account_address, opened, wire, calls, starts, inbound>>

\* A disconnect() without its finally clause: when ws.close() raises, the
\* except clause logs and the method returns.
CloseFailed_NoFinally(c) ==
    /\ tasks[c].pc = "close"
    /\ Apply(c, Finish(mgr, Fr(c), "ok"))
    /\ UNCHANGED <<limits, closed, account_address, opened, live, wire, calls, starts, inbound>>

\* ws.close() raises: the except clause of disconnect() logs the error, the
\* finally clause runs all the same.  (The transport is left as it is; if
\* it is gone, that is a Fault.)
CloseFailed(c) ==
    /\ tasks[c].pc = "close"
    /\ Apply(c, Finish([mgr EXCEPT !.connected = FALSE, !.ws = NoWs], Fr(c), "ok"))
    /\ UNCHANGED <<limits, closed, account_address, opened, live, wire, calls, starts, inbound>>

\* The venue or the network closes an open transport.
Fault(w) ==
    /\ w \in live
    /\ live' = live \ {w}
    /\ UNCHANGED <<limits, closed, mgr, tasks, calling, result, routed, account_address, opened, wire, calls, starts, inbound>>

\* The state after WebSocketTools.__init__(ws_url, account), with the budget
\* of the run.
ConstructedWith(budget, account) ==
    /\ mgr = NewManager
    /\ tasks = [u \in Tasks |->
                  Parked(IF u \in Cmds THEN Frame("idle") ELSE Frame("none"))]
    /\ calling = [c \in Cmds |-> NoCall]
    /\ result = [c \in Cmds |-> NoRes]
    /\ account_address = account
    /\ opened = 0
    /\ live = {}
    /\ closed = {}
    /\ wire = EmptyBag
    /\ calls = 0
    /\ starts = 0
    /\ routed = << >>
    /\ inbound = 0
    /\ limits = budget

\* The same with the account the server is configured with.
Constructed(budget) == ConstructedWith(budget, Account)

ConnLimits ==
    [transports |-> MaxTransports, calls |-> MaxCalls, starts |-> MaxListen,
     inbound |-> 0, depths |-> FALSE]

FacadeLimits ==
    [transports |-> MaxFacadeTransports, calls |-> MaxFacadeCalls,
     starts |-> MaxFacadeStarts, inbound |-> 0, depths |-> FALSE]

RouterLimits ==
    [transports |-> 1, calls |-> MaxRouterCalls, starts |-> 1,
     inbound |-> MaxInbound, depths |-> FALSE]

Init == Constructed(ConnLimits)

\* The same, recording the nesting depth of reconnect().
InitDepths == Constructed([ConnLimits EXCEPT !.depths = TRUE])

InitFacade == Constructed(FacadeLimits)

InitRouter == Constructed(RouterLimits)

\* Callers are interchangeable: a new call goes to the first idle one.
FirstIdle(c) ==
    /\ tasks[c].pc = "idle"
    /\ \A d \in Cmds : tasks[d].pc = "idle" => c[2] <= d[2]

StartCall == Call("start", FALSE, None, << >>, None, None)
SubUser(server, cb) == Call("sub_user", server, None, << >>, cb, None)
SubOrders(server, cb) == Call("sub_orders", server, None, << >>, cb, None)
SubMarket(server, coin, types, cb) == Call("sub_market", server, coin, types, cb, None)
Unsubscribe(id) == Call("unsubscribe", FALSE, None, << >>, None, id)
UnsubscribeAll == Call("unsubscribe_all", FALSE, None, << >>, None, None)
GetSubs(server) == Call("get_subs", server, None, << >>, None, None)

\* The connection supervisor under the command layer of server.py: start,
\* stop, the subscribe handlers (which start the manager when it is not
\* connected), transport faults.
ConnCalls ==
    {StartCall, SubUser(TRUE, None), SubMarket(TRUE, "BTC", <<"trades">>, None)}

NextConn ==
    \/ \E c \in Cmds, call \in ConnCalls : FirstIdle(c) /\ Begin(c, call)
    \/ \E c \in Cmds : FirstIdle(c) /\ StopBegin(c)
    \/ \E c \in Cmds : GatherDone(c)
    \/ \E c \in Cmds : CloseDone(c)
    \/ \E t \in Tasks : OpenOk(t)
    \/ \E t \in Tasks : OpenFail(t)
    \/ \E t \in Tasks : SendDone(t)
    \/ \E l \in Listens : ListenStart(l)
    \/ \E l \in Listens : RecvTimeout(l)
    \/ \E l \in Listens : RecvClosed(l)
    \/ \E l \in Listens : BackoffDone(l)
    \/ \E l \in Listens : Sleep1Done(l)
    \/ \E w \in live : Fault(w)

SpecConn == Init /\ [][NextConn]_vars

SpecDepths == InitDepths /\ [][NextConn]_vars

\* The same supervisor with calls enough to stop it and start it again, on
\* two transports.
StopLimits ==
    [transports |-> 2, calls |-> MaxStopCalls, starts |-> 2,
     inbound |-> 0, depths |-> FALSE]

InitStop == Constructed(StopLimits)

SpecStop == InitStop /\ [][NextConn]_vars

\* The same, with a ws.close() that may raise.
NextClose ==
    \/ NextConn
    \/ \E c \in Cmds : CloseFailed(c)

SpecClose == InitStop /\ [][NextClose]_vars

\* The subscription registry under the calls of WebSocketTools, with the
\* manager started once and the listen loop reconnecting after faults.
DataTypeLists ==
    {<<"trades">>, <<"l2Book", "trades">>, <<"trades", "bogus">>, <<"bogus", "l2Book">>}

FacadeCalls ==
    {StartCall, SubOrders(FALSE, None), UnsubscribeAll}
    \cup {SubMarket(FALSE, "BTC", ty, None) : ty \in DataTypeLists}
    \cup {Unsubscribe(SubId("trades", MarketParams("BTC", "trades")))}

NextFacade ==
    \/ \E c \in Cmds, call \in FacadeCalls : FirstIdle(c) /\ Begin(c, call)
    \/ \E t \in Tasks : OpenOk(t)
    \/ \E t \in Tasks : OpenFail(t)
    \/ \E t \in Tasks : SendDone(t)
    \/ \E l \in Listens : ListenStart(l)
    \/ \E l \in Listens : RecvTimeout(l)
    \/ \E l \in Listens : RecvClosed(l)
    \/ \E l \in Listens : BackoffDone(l)
    \/ \E l \in Listens : Sleep1Done(l)
    \/ \E w \in live : Fault(w)

SpecFacade == InitFacade /\ [][NextFacade]_vars

\* The router on one connection that stays open: entries of one kind for two
\* coins and of another kind, with and without callbacks, registered and
\* unregistered while messages arrive.
Tags == {<<"trades">>, <<"TRADES", "BTC">>, <<"l2Book">>}

RouterCalls ==
    {StartCall, Unsubscribe(SubId("trades", MarketParams("BTC", "trades")))}
    \cup {SubMarket(FALSE, "BTC", <<"trades">>, cb) : cb \in {"sync", "coro", "bad"}}
    \cup {SubMarket(FALSE, "ETH", <<"trades">>, cb) : cb \in {None, "sync"}}
    \cup {SubMarket(FALSE, "BTC", <<"l2Book">>, None)}

NextRouter ==
    \/ \E c \in Cmds, call \in RouterCalls : FirstIdle(c) /\ Begin(c, call)
    \/ \E t \in Tasks : OpenOk(t)
    \/ \E t \in Tasks : OpenFail(t)
    \/ \E t \in Tasks : SendDone(t)
    \/ \E l \in Listens : ListenStart(l)
    \/ \E l \in Listens : RecvTimeout(l)
    \/ \E l \in Listens, tag \in Tags : RecvMessage(l, tag)
    \/ \E l \in Listens, raised \in BOOLEAN : HandlerDone(l, raised)

SpecRouter == InitRouter /\ [][NextRouter]_vars

\* The same runs, with the history of the calls observed.
InitTrip == Constructed([RouterLimits EXCEPT !.depths = TRUE])

SpecTrip == InitTrip /\ [][NextRouter]_vars

\* The router under every sequence of starts, faults and reconnects: two
\* messages, entries with callbacks, the manager started up to twice.
OrderLimits ==
    [transports |-> 2, calls |-> MaxOrderCalls, starts |-> 2,
     inbound |-> MaxOrderInbound, depths |-> FALSE]

InitOrder == Constructed(OrderLimits)

OrderCalls ==
    {StartCall} \cup {SubMarket(FALSE, "BTC", <<"trades">>, cb) : cb \in {"sync", "coro"}}

NextOrder ==
    \/ \E c \in Cmds, call \in OrderCalls : FirstIdle(c) /\ Begin(c, call)
    \/ \E t \in Tasks : OpenOk(t)
    \/ \E t \in Tasks : OpenFail(t)
    \/ \E t \in Tasks : SendDone(t)
    \/ \E l \in Listens : ListenStart(l)
    \/ \E l \in Listens : RecvTimeout(l)
    \/ \E l \in Listens : RecvClosed(l)
    \/ \E l \in Listens : BackoffDone(l)
    \/ \E l \in Listens : Sleep1Done(l)
    \/ \E l \in Listens : RecvMessage(l, <<"trades">>)
    \/ \E l \in Listens, raised \in BOOLEAN : HandlerDone(l, raised)
    \/ \E w \in live : Fault(w)

SpecOrder == InitOrder /\ [][NextOrder]_vars

\* The supervisor with a fair scheduler: every await of a task that can
\* complete does (the event loop runs every ready task; a sleep ends, a
\* send or a connection attempt returns or raises, recv times out after
\* 30 s or raises on a closed transport), and a connection attempt that is
\* made again and again succeeds in the end.  The runs open two transports
\* at most, by start() (called twice at most) or by reconnect(); the venue
\* closes a transport only while another can still be opened.
LiveLimits ==
    [transports |-> 2, calls |-> MaxLiveCalls, starts |-> 2,
     inbound |-> 0, depths |-> FALSE]

InitLive == Constructed(LiveLimits)

LiveCalls ==
    {StartCall} \cup {SubMarket(FALSE, "BTC", <<ty>>, None) : ty \in {"trades", "l2Book"}}

NextLive ==
    \/ \E c \in Cmds, call \in LiveCalls : FirstIdle(c) /\ Begin(c, call)
    \/ \E t \in Tasks : OpenOk(t)
    \/ \E t \in Tasks : OpenFail(t)
    \/ \E t \in Tasks : SendDone(t)
    \/ \E l \in Listens : ListenStart(l)
    \/ \E l \in Listens : RecvTimeout(l)
    \/ \E l \in Listens : RecvClosed(l)
    \/ \E l \in Listens : BackoffDone(l)
    \/ \E l \in Listens : Sleep1Done(l)
    \/ \E w \in live : opened < limits.transports /\ Fault(w)

\* One run of task t, whichever await it is parked on.
Run(t) ==
    \/ OpenOk(t) \/ OpenFail(t) \/ SendDone(t)
    \/ t \in Listens /\ (\/ ListenStart(t) \/ RecvTimeout(t) \/ RecvClosed(t)
                         \/ BackoffDone(t) \/ Sleep1Done(t))

\* The tasks of these runs: the caller and the listen task of each start().
LiveTasks == Cmds \cup {<<"listen", 1>>, <<"listen", 2>>}

FairLive ==
    /\ \A t \in LiveTasks : WF_vars(Run(t))
    /\ SF_vars(\E t \in LiveTasks : OpenOk(t))

SpecLive == InitLive /\ [][NextLive]_vars /\ FairLive

\* The account streams of WebSocketTools, constructed with an account or
\* without one (account_address is None), beside a market stream: the
\* manager is started, entries are registered and listed, the venue delivers
\* a message, the transport breaks.
AccountLimits ==
    [transports |-> 1, calls |-> MaxAccountCalls, starts |-> 2,
     inbound |-> MaxAccountInbound, depths |-> FALSE]

InitAccount == \E a \in {Account, None} : ConstructedWith(AccountLimits, a)

AccountCalls ==
    {StartCall, SubUser(FALSE, None), SubOrders(FALSE, None),
     SubMarket(FALSE, "BTC", <<"trades">>, None), GetSubs(FALSE)}

AccountTags == {<<"orderUpdates">>, <<"userFills">>}

NextAccount ==
    \/ \E c \in Cmds, call \in AccountCalls : FirstIdle(c) /\ Begin(c, call)
    \/ \E t \in Tasks : OpenOk(t)
    \/ \E t \in Tasks : OpenFail(t)
    \/ \E t \in Tasks : SendDone(t)
    \/ \E l \in Listens : ListenStart(l)
    \/ \E l \in Listens : RecvTimeout(l)
    \/ \E l \in Listens : RecvClosed(l)
    \/ \E l \in Listens : BackoffDone(l)
    \/ \E l \in Listens : Sleep1Done(l)
    \/ \E l \in Listens, tag \in AccountTags : RecvMessage(l, tag)
    \/ \E w \in live : Fault(w)

SpecAccount == InitAccount /\ [][NextAccount]_vars

\* The four tool handlers of server.py.  The server runs only with an
\* account address that validate_config accepted; a subscribe handler calls
\* start() whenever the manager is not connected.
ServerLimits ==
    [transports |-> 2, calls |-> MaxServerCalls, starts |-> 2,
     inbound |-> 0, depths |-> FALSE]

InitServer == ConstructedWith(ServerLimits, Account)

ServerCalls ==
    {SubUser(TRUE, None), SubOrders(TRUE, None), GetSubs(TRUE)}
    \cup {SubMarket(TRUE, "BTC", ty, None) : ty \in {<<"trades">>, <<"trades", "bogus">>}}

NextServer ==
    \/ \E c \in Cmds, call \in ServerCalls : FirstIdle(c) /\ Begin(c, call)
    \/ \E t \in Tasks : OpenOk(t)
    \/ \E t \in Tasks : OpenFail(t)
    \/ \E t \in Tasks : SendDone(t)
    \/ \E l \in Listens : ListenStart(l)
    \/ \E l \in Listens : RecvTimeout(l)
    \/ \E l \in Listens : RecvClosed(l)
    \/ \E l \in Listens : BackoffDone(l)
    \/ \E l \in Listens : Sleep1Done(l)
    \/ \E w \in live : Fault(w)

SpecServer == InitServer /\ [][NextServer]_vars

\* One listen loop (start() is called once) and its reconnection sequences,
\* with the nesting depth of reconnect() and the delay of each wait
\* recorded, beside a caller that registers market streams.
BackoffLimits ==
    [transports |-> 2, calls |-> MaxBackoffCalls, starts |-> 1,
     inbound |-> 0, depths |-> TRUE]

InitBackoff == Constructed(BackoffLimits)

NextBackoff ==
    \/ \E c \in Cmds, call \in LiveCalls : FirstIdle(c) /\ Begin(c, call)
    \/ \E t \in Tasks : OpenOk(t)
    \/ \E t \in Tasks : OpenFail(t)
    \/ \E t \in Tasks : SendDone(t)
    \/ \E l \in Listens : ListenStart(l)
    \/ \E l \in Listens : RecvTimeout(l)
    \/ \E l \in Listens : RecvClosed(l)
    \/ \E l \in Listens : BackoffDone(l)
    \/ \E w \in live : Fault(w)

SpecBackoff == InitBackoff /\ [][NextBackoff]_vars

(***************************************************************************)
(* Properties.                                                             *)
(***************************************************************************)
\* The call of caller c ends in this step.
Ends(c) ==
    /\ tasks'[c].pc = "idle"
    /\ \/ tasks[c].pc # "idle"
       \/ calls' # calls /\ FirstIdle(c)

Result(c) == result'[c]

\* connect() called by reconnect() returns normally in this step.
Reconnected == mgr'.reconnections = mgr.reconnections + 1

\* connect() called by start() returns normally in this step.
Started == \E l \in Listens : tasks[l].pc = "none" /\ tasks'[l].pc = "new"

\* The subscribe() calls that have stored their entry and await their send.
InFlight == {SubId(tasks[c].msg.type, tasks[c].msg.params) :
                c \in {d \in Cmds : tasks[d].pc = "send" /\ tasks[d].sendFrom = "sub"}}

\* Every entry whose subscribe() is over has had its stored message written
\* exactly once to the transport the manager holds.
SentOnceOnWs ==
    \A i \in 1..Len(mgr.subscriptions) :
        mgr.subscriptions[i].id \notin InFlight
        => CopiesIn(<<mgr.ws, mgr.subscriptions[i].message>>, wire) = 1

\* C1: after a disconnect and a successful reconnect, every registry entry
\* has had its stored subscribe message sent exactly once on the new
\* connection, also when a subscribe() ran while the reconnect was in
\* progress: none is missing, none was sent twice.  (Stated for the
\* reconnects that end holding the transport opened last, still open.)
C1_ResubscribeFidelity ==
    [][(Reconnected /\ mgr'.ws = opened' /\ opened' \in live') => SentOnceOnWs']_vars

\* C2: two subscribe() calls with the same kind and parameters send one
\* wire subscribe message in all, the second sends nothing: on a transport a
\* subscribe message is written once, and once more only after an
\* unsubscribe message for it.
C2_IdempotentSubscribe ==
    \A x \in BagToSet(wire) :
        x[2].method = "subscribe"
        => CopiesIn(x, wire)
              <= 1 + CopiesIn(<<x[1], [x[2] EXCEPT !.method = "unsubscribe"]>>, wire)

\* C3: when subscribe_market_data or subscribe_order_updates raises because
\* a registration failed, none of the ids the call created is in the registry.
C3_AllOrNothing ==
    [][\A c \in Cmds :
          (/\ Ends(c)
           /\ Result(c).call.op \in {"sub_market", "sub_orders"}
           /\ Result(c).status = "Exception")
          => \A id \in SeqRange(Result(c).call.created) :
                id \notin Keys(mgr'.subscriptions)]_vars

\* The call of c as it stands after this step.
CallAfter(c) == IF tasks'[c].pc = "idle" THEN result'[c].call ELSE calling'[c]

\* c begins a call in this step.
Begins(c) == tasks[c].pc = "idle" /\ calls' # calls /\ FirstIdle(c)

HasUnknownType(data_types) ==
    \E i \in 1..Len(data_types) : data_types[i] \notin {"l2Book", "trades", "candle"}

\* C4: a subscribe_market_data whose dataTypes holds an unknown type, in any
\* position, raises ValueError at once: it never awaits a send, writes no
\* wire message and leaves subscriptions and message_handlers as they were.
C4_ValidationAtomicity ==
    [][\A c \in Cmds :
          (/\ Begins(c)
           /\ CallAfter(c).op = "sub_market" /\ ~CallAfter(c).server
           /\ HasUnknownType(CallAfter(c).types))
          => /\ Ends(c)
             /\ Result(c).status = "ValueError"
             /\ wire' = wire
             /\ mgr'.messages_sent = mgr.messages_sent
             /\ mgr'.subscriptions = mgr.subscriptions
             /\ mgr'.message_handlers = mgr.message_handlers]_vars

\* An unknown type behind a valid one was refused with entries registered.
C4_Witness ==
    \E c \in Cmds :
        /\ result[c].status = "ValueError"
        /\ result[c].call.op = "sub_market"
        /\ result[c].call.types[1] \in SeqRange(valid_types)
        /\ HasUnknownType(result[c].call.types)
        /\ Len(mgr.subscriptions) > 0
        /\ mgr.connected

\* C5: when unsubscribe() of an id that was in the registry returns or
\* raises, the id is no longer in the registry.
C5_BestEffortDeregister ==
    [][\A c \in Cmds :
          (/\ Ends(c)
           /\ Result(c).call.op = "unsubscribe"
           /\ Result(c).status # "ValueError")
          => Result(c).call.target \notin Keys(mgr'.subscriptions)]_vars

\* The except clause of a subscribing call is entered in this step.
EntersRollback(c) ==
    CallAfter(c).phase = "rollback" /\ calling[c].phase # "rollback"

\* The identity whose subscribe() the call of c made last.
LastIdentity(c) ==
    SubId(CallAfter(c).todo[CallAfter(c).i][1], CallAfter(c).todo[CallAfter(c).i][2])

\* C6: when the send of subscribe() fails, on a broken transport or because
\* the manager is not connected, the call takes its except clause, the
\* registry has no entry for the identity then, and the caller gets an
\* exception.
C6_NoGhostRegistration ==
    [][\A c \in Cmds :
          /\ (/\ tasks[c].pc = "send" /\ tasks[c].sendFrom = "sub"
              /\ tasks[c].w \notin live
              /\ <<tasks[c], calling[c]>>' # <<tasks[c], calling[c]>>)
             => EntersRollback(c)
          /\ (/\ Begins(c)
              /\ CallAfter(c).op \in {"sub_user", "sub_orders"}
              /\ ~CallAfter(c).server
              /\ ~(mgr.connected /\ mgr.ws # NoWs))
             => EntersRollback(c)
          /\ EntersRollback(c) => LastIdentity(c) \notin Keys(mgr'.subscriptions)
          /\ (Ends(c) /\ Result(c).call.phase = "rollback")
             => Result(c).status = "Exception"]_vars

\* A subscribe() failed on a broken transport while the manager still
\* counted itself connected, and the caller has its exception.
C6_Witness ==
    \E c \in Cmds :
        /\ result[c].status = "Exception"
        /\ result[c].call.phase = "rollback"
        /\ result[c].call.op = "sub_market"
        /\ mgr.connected /\ mgr.ws \notin live
        /\ mgr.messages_sent = 0

\* C7: a reconnection sequence makes at most max_reconnect_attempts
\* connect() calls: after that many failed in a row reconnect() raises, and
\* connect() is not called again unless start() is.
C7_BackoffBound ==
    \A l \in Listens :
        (tasks[l].pc \in {"backoff", "open", "send"} /\ tasks[l].s0 = starts)
        => tasks[l].depth <= max_reconnect_attempts

\* C8: the manager never has more than one open transport.
C8_OneLiveTransport == Cardinality(live) <= 1

\* C9: reconnect_attempts is zero when connect() returns normally, to
\* start() as to reconnect().
C9_CounterZeroAfterConnect ==
    [][(Reconnected \/ Started) => mgr'.reconnect_attempts = 0]_vars

\* C10: a message whose channel tag is K is delivered to every registry
\* entry whose kind is K, case-insensitively, whatever its coin, and to no
\* entry of another kind: of the entries that are in the registry from the
\* arrival of the message to the end of its handling, those of kind K have
\* had it counted and the others have not.  (Stated for the tags without
\* "@", whose part before "@" is the whole tag.)
C10_RoutingCoarseness ==
    \A n \in 1..Len(routed) :
        LET r == routed[n]
            K == Lower(r.tag[1])
        IN  Len(r.tag) = 1
            => /\ \A id \in Keys(r.before) \cap Keys(r.after) :
                      Lower(id[1]) = K <=> id \in SeqRange(r.delivered)
               /\ \A id \in SeqRange(r.delivered) : Lower(id[1]) = K

\* The received-message counter of the entry of id in manager m.
Received(m, id) == DictGet(m.subscriptions, id).messages_received

\* This step is part of the dispatch of an inbound message: recv returns
\* one, or _handle_message goes on after an awaited callback.
Dispatching ==
    inbound' # inbound \/ \E l \in Listens : tasks[l].pc = "handler"

\* C11: while an identity stays in the registry its received-message counter
\* is never decreased or reset: a step leaves it as it is or, when the step
\* dispatches an inbound message, adds one; a subscribe of the same or of
\* another identity, an unsubscribe, a reconnect do not change it.
C11_CounterMonotonicity ==
    [][\A id \in Keys(mgr.subscriptions) \cap Keys(mgr'.subscriptions) :
          \/ Received(mgr', id) = Received(mgr, id)
          \/ Received(mgr', id) = Received(mgr, id) + 1 /\ Dispatching]_vars

\* The identities the fair runs register.
LiveIds == {SubId(ty, MarketParams("BTC", ty)) : ty \in {"trades", "l2Book"}}

\* The subscribe request of the entry of id is with the venue on the
\* connection the manager holds, which is open: it was written there, and
\* not taken back by an unsubscribe since.
SubscribedOnLive(id) ==
    LET x == DictGet(mgr.subscriptions, id).message IN
    /\ mgr.ws \in live
    /\ CopiesIn(<<mgr.ws, x>>, wire)
          > CopiesIn(<<mgr.ws, [x EXCEPT !.method = "unsubscribe"]>>, wire)

\* reconnect() would raise at once, and no connection attempt is under way.
Exhausted ==
    /\ mgr.reconnect_attempts >= max_reconnect_attempts
    /\ ~mgr.connected
    /\ \A t \in Tasks : tasks[t].pc \notin {"open", "backoff", "send"}

\* A listen loop is running and has not given up reconnecting.
Supervised ==
    /\ \E l \in Listens : tasks[l].pc \notin Ended
    /\ ~Exhausted

C13_StopOrdering ==
    /\ \A c \in Cmds :
          tasks[c].pc = "close" => \A l \in Listens : tasks[l].pc \in Ended
    /\ \A t \in Tasks :
          tasks[t].pc \in {"send", "recv"} => tasks[t].w \notin closed

\* stop() cancelled a listen task that was reading and closed its
\* transport; the manager was started again and reads a new transport.
C13_Witness ==
    /\ closed # {}
    /\ \E l \in Listens : tasks[l].pc = "cancelled"
    /\ \E l \in Listens : tasks[l].pc = "recv" /\ tasks[l].w \in live

\* C14: whenever connected is false the manager holds no open transport:
\* every path that clears the flag has closed the handle.
C14_TransportBoundedByConnected == ~mgr.connected => mgr.ws \notin live

\* C15: when a callback raised during the dispatch of a message, every
\* callback that was registered for a matching entry when the message
\* arrived (and whose entry is still registered) has been invoked for it,
\* and the message is on the poll queue.
C15_CallbackIsolation ==
    \A n \in 1..Len(routed) :
        LET r == routed[n] IN
        r.raised # << >>
        => /\ r.outcome = "queued"
           /\ \A p \in r.due :
                 p[1] \in Keys(r.after) => p \in SeqRange(r.invoked)

\* C16: messages are dispatched one after the other in the order they were
\* received: no dispatch begins while another is in progress, and the
\* dispatches end in the order of arrival.
C16_DispatchOrder ==
    /\ \A l1, l2 \in Listens :
          tasks[l1].pc = "handler" /\ tasks[l2].pc = "handler" => l1 = l2
    /\ \A n, k \in 1..Len(routed) : n < k => routed[n].seq < routed[k].seq

\* C17: the dispatch of a message is not aborted by a subscribe() or an
\* unsubscribe() that runs while a callback is awaited: it ends with the
\* message on the poll queue, and every entry that was registered when the
\* dispatch began and matches the message has had it delivered.
C17_ConsistentSnapshot ==
    \A n \in 1..Len(routed) :
        LET r == routed[n] IN
        /\ r.outcome = "queued"
        /\ \A i \in 1..Len(r.before) :
              _message_matches_subscription(r.tag, r.before[i])
              => r.before[i].id \in SeqRange(r.delivered)

\* The keys of the registry of m, in the order of the dict.
KeyList(m) == [i \in 1..Len(m.subscriptions) |-> m.subscriptions[i].id]

\* C18: unsubscribe_all takes the ids that are in the registry when it is
\* called and calls unsubscribe() for each of them once, in turn: the list
\* is fixed, the index only advances, the message it awaits the send of is
\* the unsubscribe of the id in hand; a failure does not end the loop, and
\* the call returns normally with every id attempted.
C18_UnsubscribeAllTolerant ==
    [][\A c \in Cmds :
          /\ (Begins(c) /\ CallAfter(c).op = "unsubscribe_all")
             => CallAfter(c).keys = KeyList(mgr)
          /\ calling[c].op = "unsubscribe_all"
             => /\ CallAfter(c).keys = calling[c].keys
                /\ CallAfter(c).k >= calling[c].k
          /\ (calling'[c].op = "unsubscribe_all" /\ tasks'[c].pc = "send")
             => /\ calling'[c].k \in 1..Len(calling'[c].keys)
                /\ tasks'[c].msg.method = "unsubscribe"
                /\ SubId(tasks'[c].msg.type, tasks'[c].msg.params)
                      = calling'[c].keys[calling'[c].k]
          /\ (Ends(c) /\ Result(c).call.op = "unsubscribe_all")
             => /\ Result(c).status = "ok"
                /\ Result(c).call.k = Len(Result(c).call.keys) + 1]_vars

\* An unsubscribe_all over two entries has returned: the unsubscribe of the
\* first was sent, that of the second failed on the broken transport.
C18_Witness ==
    \E c \in Cmds :
        /\ result[c].call.op = "unsubscribe_all"
        /\ result[c].status = "ok"
        /\ Len(result[c].call.keys) = 2
        /\ Keys(mgr.subscriptions) = {result[c].call.keys[2]}
        /\ mgr.ws \notin live

\* C19: unsubscribe() with an id that is not in the registry raises
\* ValueError at once: the call ends in the step it begins in, nothing is
\* written to a transport, and the manager (the registry, the callback
\* table, the sent-message counter and all the rest) is left as it was.
C19_UnsubscribeNotFound ==
    [][\A c \in Cmds :
          (/\ Begins(c)
           /\ CallAfter(c).op = "unsubscribe"
           /\ CallAfter(c).target \notin Keys(mgr.subscriptions))
          => /\ Ends(c)
             /\ Result(c).status = "ValueError"
             /\ wire' = wire
             /\ mgr'.subscriptions = mgr.subscriptions
             /\ mgr'.message_handlers = mgr.message_handlers
             /\ mgr'.messages_sent = mgr.messages_sent]_vars

\* An unsubscribe() of an id that is not registered has raised ValueError
\* on a connected manager whose registry holds other entries.
C19_Witness ==
    \E c \in Cmds :
        /\ result[c].call.op = "unsubscribe"
        /\ result[c].status = "ValueError"
        /\ result[c].call.target \notin Keys(mgr.subscriptions)
        /\ Len(mgr.subscriptions) = 2
        /\ SendAllowed(mgr)
        /\ mgr.ws \in live

\* C20: send accounting.  messages_sent is the number of messages written
\* to a transport (a write being made when ws.send returns); a task comes
\* to await ws.send only with the manager connected and holding a
\* transport, the one it writes to; a ws.send that raises writes nothing
\* and counts nothing, one that returns writes one message and counts one.
C20_SendAccounting ==
    /\ [](mgr.messages_sent = BagCardinality(wire))
    /\ [][\A t \in Tasks :
            /\ (tasks'[t].pc = "send" /\ (tasks[t].pc # "send" \/ SendDone(t)))
               => /\ mgr'.connected
                  /\ mgr'.ws # NoWs
                  /\ tasks'[t].w = mgr'.ws
            /\ SendDone(t)
               => IF tasks[t].w \in live
                  THEN /\ wire' = wire (+) SetToBag({<<tasks[t].w, tasks[t].msg>>})
                       /\ mgr'.messages_sent = mgr.messages_sent + 1
                  ELSE /\ wire' = wire
                       /\ mgr'.messages_sent = mgr.messages_sent]_vars

\* One subscribe message was written and counted, and the ws.send of a
\* second subscribe() then raised on the broken transport.
C20_Witness ==
    \E c \in Cmds :
        /\ result[c].call.op = "sub_market"
        /\ result[c].status = "Exception"
        /\ mgr.connected
        /\ mgr.ws \notin live
        /\ mgr.messages_sent = 1
        /\ BagCardinality(wire) = 1

\* C21: with no account configured, subscribe_user_events and
\* subscribe_order_updates raise ValueError before they register anything:
\* the call ends in the step it begins in, nothing is written to a
\* transport, and the manager (registry, callback table, counters) is as it
\* was.
C21_AccountRequired ==
    [][\A c \in Cmds :
          (/\ Begins(c)
           /\ CallAfter(c).op \in {"sub_user", "sub_orders"}
           /\ ~CallAfter(c).server
           /\ account_address = None)
          => /\ Ends(c)
             /\ Result(c).status = "ValueError"
             /\ wire' = wire
             /\ mgr' = mgr]_vars

\* subscribe_order_updates was refused for want of an account on a connected
\* manager that holds a market entry.
C21_Witness ==
    \E c \in Cmds :
        /\ account_address = None
        /\ result[c].call.op = "sub_orders"
        /\ result[c].status = "ValueError"
        /\ Len(mgr.subscriptions) = 1
        /\ SendAllowed(mgr)
        /\ mgr.ws \in live

\* The registry d holds the two entries of subscribe_order_updates for
\* account, orderUpdates first, with received counters n1 and n2, and
\* nothing else.
OrderEntries(d, account, n1, n2) ==
    /\ Len(d) = 2
    /\ d[1].type = "orderUpdates" /\ d[2].type = "userFills"
    /\ \A i \in 1..2 : d[i].params = <<<<"user", account>>>>
    /\ d[1].messages_received = n1
    /\ d[2].messages_received = n2

C23_ListingIsProjection ==
    [][\A c \in Cmds :
          (Begins(c) /\ CallAfter(c).op = "get_subs")
          => /\ Ends(c)
             /\ Result(c).status = "ok"
             /\ Len(Result(c).ret) = Len(mgr.subscriptions)
             /\ \A i \in 1..Len(mgr.subscriptions) :
                   /\ Result(c).ret[i].subscription_id = mgr.subscriptions[i].id
                   /\ Result(c).ret[i].subscription_type = mgr.subscriptions[i].type
                   /\ Result(c).ret[i].params = mgr.subscriptions[i].params
                   /\ Result(c).ret[i].messages_received
                         = mgr.subscriptions[i].messages_received
                   /\ Result(c).ret[i].connected = mgr.connected
             /\ mgr' = mgr
             /\ wire' = wire /\ live' = live /\ opened' = opened
             /\ \A l \in Listens : tasks'[l] = tasks[l]]_vars

\* The listing of two entries, one of which has received a message, was
\* returned by a manager whose connection had been lost.
C23_Witness ==
    \E c \in Cmds :
        /\ result[c].call.op = "get_subs"
        /\ result[c].status = "ok"
        /\ Len(result[c].ret) = 2
        /\ result[c].ret[1].messages_received = 1
        /\ result[c].ret[2].messages_received = 0
        /\ ~result[c].ret[1].connected

\* C24: every tool handler (subscribe_user_events, subscribe_market_data,
\* subscribe_order_updates, get_active_subscriptions) gives its caller a
\* structured result and never an exception: success = True when start()
\* and the WebSocketTools call returned, success = False with an error when
\* start() or connect() failed, a data type was refused, or a registration
\* failed.
C24_StructuredResult ==
    [][\A c \in Cmds :
          (Ends(c) /\ Result(c).call.server)
          => LET r == ServerResponse(Result(c), account_address) IN
             /\ ~r.raised
             /\ r.success <=> Result(c).status = "ok"
             /\ r.success => r.error = None
             /\ ~r.success => r.error \in {"ValueError", "Exception", "KeyError"}
             /\ (r.success /\ Result(c).call.op = "get_subs")
                   => Len(r.value) = Len(mgr.subscriptions)]_vars

\* A subscribe handler got success = False: the registration failed on a
\* broken transport the manager still counted as connected.
C24_Witness ==
    \E c \in Cmds :
        /\ result[c].call.server
        /\ result[c].call.op = "sub_orders"
        /\ result[c].status = "Exception"
        /\ result[c].call.phase = "rollback"
        /\ mgr.connected /\ mgr.ws \notin live
        /\ ~ServerResponse(result[c], account_address).success

\* C25: the k-th consecutive attempt of a reconnection sequence (the k-th
\* nested invocation of reconnect(), k from 1) waits
\* base_reconnect_delay * 2^(k-1) seconds, and connect() is called by
\* reconnect() only when that wait is over.
C25_BackoffDelay ==
    /\ [](\A l \in Listens :
            tasks[l].pc = "backoff"
            => tasks[l].delay = base_reconnect_delay * 2 ^ (tasks[l].depth - 1))
    /\ [][\A l \in Listens :
            (/\ tasks'[l].pc = "open" /\ tasks'[l].connFrom = "reconnect"
             /\ tasks[l].pc # "open")
            => tasks[l].pc = "backoff"]_vars

\* C26: when disconnect() is over (stop() returns), running and connected
\* are false and the manager holds no transport, whether it held one or not
\* and whether ws.close() returned or raised; stop() returns normally
\* either way.
C26_DisconnectClears ==
    [][\A c \in Cmds :
          (Ends(c) /\ Result(c).call.op = "stop")
          => /\ Result(c).status = "ok"
             /\ ~mgr'.running
             /\ ~mgr'.connected
             /\ mgr'.ws = NoWs]_vars

\* stop() has returned after a ws.close() that raised: the only transport
\* ever opened is still open and the manager has let go of it.
C26_Witness ==
    \E c \in Cmds :
        /\ result[c].call.op = "stop"
        /\ result[c].status = "ok"
        /\ opened = 1 /\ 1 \in live
        /\ mgr.ws = NoWs /\ ~mgr.connected /\ ~mgr.running

\* The dispatches under way: the tasks parked in _handle_message.
InDispatch == {l \in Listens : tasks[l].pc = "handler"}

\* C27: every message _handle_message has parsed is put on the poll queue
\* once, when its dispatch is over and whether an entry matched it or not:
\* no dispatch ends without the put, and the messages put on the queue are
\* those counted in messages_received, less the ones whose dispatch is
\* under way.
C27_PollQueueFanOut ==
    /\ \A n \in 1..Len(routed) : routed[n].outcome = "queued"
    /\ Len(mgr.message_queue) + Cardinality(InDispatch) = mgr.messages_received
    /\ Len(mgr.message_queue) = Len(routed)

\* The listen() loops that are running: the listen tasks that have begun
\* and have not ended.
ActiveLoops == {l \in Listens : tasks[l].pc \notin Ended \cup {"new"}}

\* C28: at most one listen() loop is active at a time, whatever start(),
\* stop(), the faults, the backoff waits and the subscribe handlers (which
\* call start() when connected is false) do.
C28_SingleListenLoop == Cardinality(ActiveLoops) <= 1

\* C29: when reconnect() has raised for want of attempts in a listen loop,
\* from the not-connected check (line 288) or from a fault handler (lines
\* 300, 305), the loop is over: it does not call reconnect() again with no
\* start() called in between, and a loop that has ended stays ended.
C29_FailedIsTerminal ==
    /\ [](\A l \in Listens :
            tasks[l].pc = "sleep1" => tasks[l].recFrom # "again")
    /\ [][\A l \in Listens :
            tasks[l].pc = "dead" => tasks'[l].pc = "dead"]_vars

\* The run of _resubscribe_all that follows the send task t is parked on.
ResubAfter(t) == ResubNext(mgr, Fr(t), Fr(t).pos, Fr(t).size)

\* C30: when a send of _resubscribe_all has failed, the batch goes on: it
\* attempts the entry of the next slot, or it has attempted every entry and
\* returns normally to connect(); it does not raise to connect(), and the
\* registry and the callback table are as they were.
C30_ResubscribeBestEffort ==
    [][\A t \in Tasks :
          /\ tasks[t].pc = "send"
          /\ tasks[t].sendFrom = "resub"
          /\ tasks[t].w \notin live
          /\ SendDone(t)
          => /\ ResubAfter(t).out # "raise"
             /\ ResubAfter(t).out = "ok" => Fr(t).pos >= Len(mgr.subscriptions)
             /\ ResubAfter(t).m.subscriptions = mgr.subscriptions
             /\ ResubAfter(t).m.message_handlers = mgr.message_handlers]_vars

\* C31: when recv raises ConnectionClosed or another transport fault in the
\* listen loop, connected is false when the handler is through; with running
\* true the handler calls reconnect() once (the call counts one attempt and
\* waits, or raises at once when the attempts are spent and ends the loop),
\* and when that call returns, the manager connected, the loop goes back to
\* its receive without another call (connected is false at that point only
\* when another task has cleared it since); with running false the loop
\* ends and no reconnect is started.
C31_FaultHandling ==
    [][\A l \in Listens :
          /\ RecvClosed(l)
             => /\ ~mgr'.connected
                /\ IF ~mgr.running
                   THEN /\ tasks'[l].pc = "done"
                        /\ mgr'.reconnect_attempts = mgr.reconnect_attempts
                   ELSE IF mgr.reconnect_attempts >= max_reconnect_attempts
                   THEN /\ tasks'[l].pc = "dead"
                        /\ mgr'.reconnect_attempts = mgr.reconnect_attempts
                   ELSE /\ tasks'[l].pc = "backoff"
                        /\ tasks'[l].recFrom = "handler"
                        /\ mgr'.reconnect_attempts = mgr.reconnect_attempts + 1
          /\ (/\ tasks[l].pc \in {"open", "send"}
              /\ tasks[l].connFrom = "reconnect"
              /\ tasks[l].recFrom = "handler"
              /\ (OpenOk(l) \/ SendDone(l))
              /\ Reconnected
              /\ mgr'.connected)
             => tasks'[l].pc \in {"recv", "sleep1", "done"}]_vars

\* The listen loop has reconnected after a first fault and is waiting to
\* reconnect after a second one, detected on the second transport.
C31_Witness ==
    \E l \in Listens :
        /\ tasks[l].pc = "backoff"
        /\ tasks[l].recFrom = "handler"
        /\ mgr.running /\ ~mgr.connected
        /\ mgr.reconnections = 1
        /\ mgr.reconnect_attempts = 1
        /\ live = {}

\* C32: when websockets.connect raises, connect() raises with connected
\* false, and has changed nothing else of the manager: the registry, the
\* callback table and reconnect_attempts are as they were; when start() is
\* the caller, the exception reaches the caller of start(), and no listen
\* task is created.
C32_ConnectFailure ==
    [][\A t \in Tasks :
          OpenFail(t)
          => LET r == ConnectRefused(mgr, Fr(t)) IN
             /\ r.out = "raise"
             /\ r.m = [mgr EXCEPT !.connected = FALSE]
             /\ ~mgr'.connected
             /\ mgr'.subscriptions = mgr.subscriptions
             /\ mgr'.message_handlers = mgr.message_handlers
             /\ tasks[t].connFrom = "start"
                => /\ Ends(t)
                   /\ Result(t).status = "Exception"
                   /\ mgr' = r.m
                   /\ \A l \in Listens : tasks'[l] = tasks[l]]_vars

\* A second start() has failed on a manager that was connected and holds an
\* entry: connected is false, the entry is there, and the listen task of
\* the first start() is the only one.
C32_Witness ==
    \E c \in Cmds :
        /\ result[c].call.op = "start"
        /\ result[c].status = "Exception"
        /\ ~mgr.connected
        /\ mgr.ws \in live
        /\ Len(mgr.subscriptions) = 1
        /\ mgr.reconnect_attempts = 0
        /\ Cardinality({l \in Listens : tasks[l].pc # "none"}) = 1

\* The callbacks invoked for the entry of id during the dispatch r, in the
\* order of their invocation.
InvokedFor(r, id) ==
    LET OfId(p) == p[1] = id
        s == SelectSeq(r.invoked, OfId)
    IN  [k \in 1..Len(s) |-> s[k][2]]

\* C33: for every message and every entry that matches it, the callbacks
\* registered for the entry's identity when the message arrives are invoked
\* once each, in the order of their registration (those a subscribe()
\* attaches while the dispatch is under way may follow them).
C33_CallbackOrder ==
    \A n \in 1..Len(routed) :
        LET r == routed[n] IN
        \A i \in 1..Len(r.before) :
            LET id == r.before[i].id IN
            (/\ _message_matches_subscription(r.tag, r.before[i])
             /\ id \in DOMAIN r.handlers)
            => /\ Len(InvokedFor(r, id)) >= Len(r.handlers[id])
               /\ SubSeq(InvokedFor(r, id), 1, Len(r.handlers[id])) = r.handlers[id]

\* C34: an invocation of reconnect() by the listen loop ends, the manager
\* connected or the exhaustion error raised, within max_reconnect_attempts
\* connect() attempts, each made by one invocation of reconnect() nested in
\* the one before: no invocation of the chain is ever the
\* (max_reconnect_attempts + 1)-th to wait for, or to make, a connect()
\* attempt, also when a connect() of the chain opened its transport and
\* failed in _resubscribe_all.
C34_ReconnectTerminates ==
    \A l \in Listens :
        tasks[l].pc \in {"backoff", "open", "send"}
        => tasks[l].depth <= max_reconnect_attempts

\* C35: every subscription id that has a callback list in message_handlers
\* has an entry in subscriptions, also after a subscribe() with a callback
\* whose send failed.
C35_HandlersCovered == DOMAIN mgr.message_handlers \subseteq Keys(mgr.subscriptions)

\* C36: when subscribe_market_data or subscribe_order_updates raises, every
\* identity that was in the registry when the call began is still there:
\* the failed registration and the rollback remove only what the call
\* created.
C36_RollbackKeepsOthers ==
    [][\A c \in Cmds :
          (/\ Ends(c)
           /\ Result(c).call.op \in {"sub_market", "sub_orders"}
           /\ Result(c).status # "ok")
          => Keys(Result(c).call.had.subscriptions) \subseteq Keys(mgr'.subscriptions)]_vars

\* The registry d without its received counters, which a dispatch between
\* two calls may have advanced.
Static(d) == [i \in 1..Len(d) |-> [d[i] EXCEPT !.messages_received = 0]]

\* C37: a subscribe of an identity that is not registered, which returns,
\* followed by an unsubscribe of the id it returned, which returns, leaves
\* the registry (its entries and their order) and the callback table as they
\* were before the subscribe; and the message unsubscribe() sends has the
\* type and the parameters of the subscribe message stored in the entry.
C37_RoundTrip ==
    [][\A c \in Cmds :
          /\ (/\ Begins(c)
              /\ CallAfter(c).op = "unsubscribe"
              /\ tasks'[c].pc = "send")
             => tasks'[c].msg =
                   [DictGet(mgr.subscriptions, CallAfter(c).target).message
                       EXCEPT !.method = "unsubscribe"]
          /\ (/\ Ends(c)
              /\ Result(c).call.op = "unsubscribe"
              /\ Result(c).status = "ok"
              /\ Result(c).call.prev.created = <<Result(c).call.target>>
              /\ Result(c).call.target
                    \notin Keys(Result(c).call.prev.had.subscriptions))
             => /\ Static(mgr'.subscriptions)
                      = Static(Result(c).call.prev.had.subscriptions)
                /\ mgr'.message_handlers
                      = Result(c).call.prev.had.message_handlers]_vars

\* The connect() that reconnect() called in task l returns normally in this
\* step: websockets.connect returns and there is nothing to resubscribe, or
\* the last send of _resubscribe_all is over.
ReconnectSucceeds(l) ==
    /\ tasks[l].pc \in {"open", "send"}
    /\ tasks[l].connFrom = "reconnect"
    /\ \/ OpenOk(l) /\ ConnectOpened(mgr, Fr(l), opened + 1).out = "ok"
       \/ SendDone(l) /\ ResubAfter(l).out = "ok"

\* C38: the reconnections statistic goes up by one when the connect() of a
\* reconnection sequence returns normally, whatever the number of attempts
\* that failed before it in the sequence, and changes in no other step: not
\* when the connect() of start() returns, not when a connect() of the
\* sequence fails, not when the sequence ends in exhaustion.
C38_ReconnectionsCount ==
    [][/\ \A l \in Listens :
             ReconnectSucceeds(l) => mgr'.reconnections = mgr.reconnections + 1
       /\ mgr'.reconnections # mgr.reconnections
             => \E l \in Listens : ReconnectSucceeds(l)
       /\ Started => mgr'.reconnections = mgr.reconnections
       /\ \A l \in Listens :
             (tasks[l].pc # "dead" /\ tasks'[l].pc = "dead")
             => mgr'.reconnections = mgr.reconnections]_vars

\* The reconnection sequence after a first fault succeeded and was counted;
\* the sequence after a second fault spent its five attempts and gave up:
\* the count is one.
C38_Witness ==
    \E l \in Listens :
        /\ tasks[l].pc = "dead"
        /\ mgr.reconnections = 1
        /\ mgr.reconnect_attempts = max_reconnect_attempts
        /\ opened = 2

\* C39: no step of stop() (the cancelling of the listen tasks, the wait for
\* them, disconnect() and the closing of the transport) changes the registry
\* or the callback table; and when the connect() of a start() made after a
\* stop() returns, on a transport that is still open, the stored message of
\* every entry of the registry has been written to that transport.
C39_StopKeepsRegistry ==
    [][/\ \A c \in Cmds :
             (StopBegin(c) \/ GatherDone(c) \/ CloseDone(c))
             => /\ mgr'.subscriptions = mgr.subscriptions
                /\ mgr'.message_handlers = mgr.message_handlers
       /\ (Started /\ closed # {} /\ mgr'.ws \in live')
             => \A i \in 1..Len(mgr.subscriptions) :
                   CopiesIn(<<mgr'.ws, mgr.subscriptions[i].message>>, wire') >= 1]_vars

\* The manager was started, an entry registered, the manager stopped and
\* started again: the entry's message is on the closed transport and on the
\* new one.
C39_Witness ==
    \E c \in Cmds :
        /\ result[c].call.op = "start"
        /\ result[c].status = "ok"
        /\ closed = {1}
        /\ mgr.ws = 2 /\ 2 \in live
        /\ Len(mgr.subscriptions) = 1
        /\ CopiesIn(<<1, mgr.subscriptions[1].message>>, wire) = 1
        /\ CopiesIn(<<2, mgr.subscriptions[1].message>>, wire) = 1

\* C40: in every reachable state a manager whose connected flag is set holds
\* a transport handle, and every send that passed the check of _send_message
\* is writing to a handle.
C40_ConnectedHasHandle ==
    /\ mgr.connected => mgr.ws # NoWs
    /\ \A t \in Tasks : tasks[t].pc = "send" => tasks[t].w # NoWs

\* After a stop() dropped the handle of transport 1, the manager is connected
\* again, holds transport 2, and a send of the caller that passed the check
\* is writing to it.
C40_Witness ==
    /\ mgr.connected
    /\ mgr.ws = 2
    /\ closed = {1}
    /\ \E c \in Cmds : /\ tasks[c].pc = "send"
                       /\ tasks[c].sendFrom = "sub"
                       /\ tasks[c].w = 2

=============================================================================
